---- MODULE Spec2Model ----
(***************************************************************************)
(* A model of obsidian-claude-bridge: the Claude CLI service               *)
(* (src/src/claude-service.ts: buildArgs, callClaude, parseResponse and    *)
(* its extractors) and the command lifecycle (BaseCommand.execute and the  *)
(* SessionManager, both in src/src/session-manager.ts; ExpandCommand in    *)
(* src/src/commands/expand.ts).                                            *)
(*                                                                         *)
(* Seven specifications share the variables:                               *)
(*   SpecArgs   buildArgs applied to every CallOptions of a bounded set    *)
(*   SpecParse  parseResponse applied to every raw output of a bounded set *)
(*   SpecStore  the SessionManager's three operations, in any order        *)
(*   SpecEvents the error and close handlers of one call, in either order  *)
(*   SpecSettings  edits of the max budget field between and during calls  *)
(*   SpecConcurrent  two invocations of execute in flight on one note      *)
(*   Spec       one command invocation after another: execute, the child   *)
(*              process's events, the promise, validation, render          *)
(*                                                                         *)
(* JavaScript values are modelled as follows.  An object is a record, and  *)
(* an optional field that is absent is absent from the record's domain.    *)
(* null is the string Null, which no other string of the model equals.     *)
(* A string is falsy when it is empty, a number when it is 0, and an       *)
(* object never.                                                           *)
(***************************************************************************)
EXTENDS Integers, Sequences, FiniteSets, TLC

VARIABLES
    options,      \* the ClaudeCallOptions of the call
    args,         \* the argument list buildArgs built (<<>> before the call)
    stdout,       \* callClaude's stdout: the text received so far, as tokens
    stderr,       \* callClaude's stderr: the text received so far, as pieces
    parsed,       \* what parseResponse returned or threw (ParseIdle: not called)
    proc,         \* the child process: its state and what it has yet to write
    outcome,      \* the promise callClaude returned
    settleCalls,  \* the calls of resolve and reject made so far, in order
    settings,     \* plugin.settings
    frontmatter,  \* each file's frontmatter
    editor,       \* the editor of the active view: text and selection
    pc,           \* where execute stands: idle, awaitCall, settled, awaitSetSession
    notices,      \* the notices the current invocation has shown
    inv,          \* the current invocation: its file, how it ended, what it saw at its start
    runs,         \* invocations started so far
    sm,           \* the last SessionManager operation of SpecStore, and what it met
    data,         \* the plugin's saved data and the edits of the settings tab
    conc          \* the invocations of SpecConcurrent, their start order and session writes

Null == "<null>"

Has(o, f) == f \in DOMAIN o

\* if (x.f) on an optional string field
TruthyStr(o, f) == Has(o, f) /\ o[f] # "" /\ o[f] # Null

\* if (x.f) on an optional number field
TruthyNum(o, f) == Has(o, f) /\ o[f] # 0

\* if (x.f) on an optional object or array field: {} and [] are truthy
TruthyObj(o, f) == Has(o, f)

RECURSIVE Join(_, _)
\* Array.prototype.join
Join(seq, sep) ==
    IF seq = <<>> THEN ""
    ELSE IF Len(seq) = 1 THEN seq[1]
    ELSE seq[1] \o sep \o Join(Tail(seq), sep)

(***************************************************************************)
(* JSON.stringify of an object.  The objects of the model have at most one *)
(* key, whose value is a string, so key order does not arise.              *)
(***************************************************************************)
JSONstringify(obj) ==
    IF DOMAIN obj = {} THEN "{}"
    ELSE LET k == CHOOSE key \in DOMAIN obj : TRUE
         IN  "{\"" \o k \o "\":\"" \o obj[k] \o "\"}"

EmptyObject == [k \in {} |-> ""]

\* the options before any call
NoOptions == [prompt |-> ""]

\* parseResponse has not been called
ParseIdle == [kind |-> "none"]

----------------------------------------------------------------------------
(* buildArgs *)

MIN_TURNS_WITH_SCHEMA == 2

DEFAULT_TURNS == 1

buildArgs_SingleTurn(opts) ==
    LET a0 == <<"-p", opts.prompt, "--output-format", "json">>
        a1 == IF TruthyStr(opts, "model") THEN a0 \o <<"--model", opts.model>> ELSE a0
        a2 == IF TruthyStr(opts, "sessionId") THEN a1 \o <<"-r", opts.sessionId>> ELSE a1
        a3 == IF TruthyStr(opts, "systemPrompt")
              THEN a2 \o <<"--system-prompt", opts.systemPrompt>> ELSE a2
        a4 == IF TruthyObj(opts, "jsonSchema")
              THEN a3 \o <<"--json-schema", JSONstringify(opts.jsonSchema)>> ELSE a3
    IN  IF TruthyNum(opts, "maxTokens")
        THEN a4 \o <<"--max-turns", ToString(DEFAULT_TURNS)>>
        ELSE a4

buildArgs_EmptyFlags(opts) ==
    LET a0 == <<"-p", opts.prompt, "--output-format", "json">>
        a1 == IF Has(opts, "model") THEN a0 \o <<"--model", opts.model>> ELSE a0
        a2 == IF Has(opts, "sessionId") THEN a1 \o <<"-r", opts.sessionId>> ELSE a1
        a3 == IF Has(opts, "systemPrompt")
              THEN a2 \o <<"--system-prompt", opts.systemPrompt>> ELSE a2
        a4 == IF TruthyObj(opts, "jsonSchema")
              THEN a3 \o <<"--json-schema", JSONstringify(opts.jsonSchema)>> ELSE a3
        turns == IF TruthyObj(opts, "jsonSchema") THEN MIN_TURNS_WITH_SCHEMA
                 ELSE DEFAULT_TURNS
    IN  IF TruthyNum(opts, "maxTokens")
        THEN a4 \o <<"--max-turns", ToString(turns)>>
        ELSE a4

buildArgs(opts) ==
    LET a0 == <<"-p", opts.prompt, "--output-format", "json">>
        a1 == IF TruthyStr(opts, "model") THEN a0 \o <<"--model", opts.model>> ELSE a0
        a2 == IF TruthyStr(opts, "sessionId") THEN a1 \o <<"-r", opts.sessionId>> ELSE a1
        a3 == IF TruthyStr(opts, "systemPrompt")
              THEN a2 \o <<"--system-prompt", opts.systemPrompt>> ELSE a2
        a4 == IF TruthyObj(opts, "jsonSchema")
              THEN a3 \o <<"--json-schema", JSONstringify(opts.jsonSchema)>> ELSE a3
        turns == IF TruthyObj(opts, "jsonSchema") THEN MIN_TURNS_WITH_SCHEMA
                 ELSE DEFAULT_TURNS
    IN  IF TruthyNum(opts, "maxTokens")
        THEN a4 \o <<"--max-turns", ToString(turns)>>
        ELSE a4

(***************************************************************************)
(* The argument list is "-p", prompt, "--output-format", "json" and then   *)
(* flag/value pairs, so flags stand at the odd positions from 5 on.        *)
(***************************************************************************)
FlagPositions(a, flag) ==
    {i \in 5..Len(a) : i % 2 = 1 /\ i < Len(a) /\ a[i] = flag}

HasFlag(a, flag) == FlagPositions(a, flag) # {}

FlagValue(a, flag) == a[(CHOOSE i \in FlagPositions(a, flag) : TRUE) + 1]

\* the schema document of TextResponseSchema, reduced to one key
TextJsonSchema == [type |-> "object"]

DEFAULT_MAX_BUDGET == 50000

\* The CallOptions of SpecArgs: every optional field absent, falsy or set.
CallOptionsSet ==
    {[prompt |-> p] @@ m @@ s @@ sp @@ js @@ mt :
        p  \in {"expand this", "summarise"},
        m  \in {EmptyObject, [model |-> ""], [model |-> "sonnet"]},
        s  \in {EmptyObject, [sessionId |-> ""], [sessionId |-> "abc123"]},
        sp \in {EmptyObject, [systemPrompt |-> ""], [systemPrompt |-> "Be brief."]},
        js \in {EmptyObject, [jsonSchema |-> EmptyObject], [jsonSchema |-> TextJsonSchema]},
        mt \in {EmptyObject, [maxTokens |-> 0], [maxTokens |-> 1],
                [maxTokens |-> DEFAULT_MAX_BUDGET]}}

----------------------------------------------------------------------------
(* parseResponse and its extractors *)

(***************************************************************************)
(* The raw stdout text is a sequence of lexical tokens: the opening and    *)
(* the closing bracket of the array, one token per serialized message      *)
(* object (separating commas left out), and a token of text that is no     *)
(* JSON.  Chunk boundaries fall between tokens.                            *)
(***************************************************************************)
TokOpen == [tok |-> "["]

TokClose == [tok |-> "]"]

TokJunk == [tok |-> "junk"]

TokMsg(m) == [tok |-> "msg", msg |-> m]

\* JSON.stringify of an array of messages, as tokens
Serialize(msgs) == <<TokOpen>> \o [i \in 1..Len(msgs) |-> TokMsg(msgs[i])] \o <<TokClose>>

IsMsgTok(t) == t.tok = "msg"

(***************************************************************************)
(* JSON.parse(raw) followed by Array.isArray(parsed) ? parsed : [parsed].  *)
(* A well-formed text is a bracketed run of objects or one bare object;    *)
(* every other token sequence (empty, truncated, trailing text) makes      *)
(* JSON.parse throw.                                                       *)
(***************************************************************************)
JSONparseOk(text) ==
    \/ /\ Len(text) >= 2
       /\ text[1] = TokOpen
       /\ text[Len(text)] = TokClose
       /\ \A i \in 2..(Len(text) - 1) : IsMsgTok(text[i])
    \/ /\ Len(text) = 1
       /\ IsMsgTok(text[1])

JSONparseMessages(text) ==
    IF Len(text) = 1 THEN <<text[1].msg>>
    ELSE [i \in 1..(Len(text) - 2) |-> text[i + 1].msg]

STRUCTURED_OUTPUT == "StructuredOutput"

NO_TEXT == "(No text in response)"

ERR_PARSE == "Failed to parse Claude CLI JSON output"

ERR_EMPTY == "Empty JSON array from Claude CLI output"

\* !msg.message?.content is false
HasContent(m) == Has(m, "message") /\ Has(m.message, "content")

IsStructuredBlock(b) ==
    /\ b.type = "tool_use"
    /\ Has(b, "name") /\ b.name = STRUCTURED_OUTPUT
    /\ TruthyObj(b, "input")

\* the (message, block) positions of the StructuredOutput blocks, in scan order
StructuredPositions(messages) ==
    UNION {{<<i, j>> : j \in {k \in 1..Len(messages[i].message.content) :
                                IsStructuredBlock(messages[i].message.content[k])}} :
           i \in {n \in 1..Len(messages) :
                    messages[n].type = "assistant" /\ HasContent(messages[n])}}

Before(p, q) == p[1] < q[1] \/ (p[1] = q[1] /\ p[2] <= q[2])

FirstPosition(ps) == CHOOSE p \in ps : \A q \in ps : Before(p, q)

LastPosition(ps) == CHOOSE p \in ps : \A q \in ps : Before(q, p)

extractStructuredOutput_LastBlock(messages) ==
    LET ps == StructuredPositions(messages)
    IN  IF ps = {} THEN Null
        ELSE LET p == LastPosition(ps)
             IN  JSONstringify(messages[p[1]].message.content[p[2]].input)

extractStructuredOutput(messages) ==
    LET ps == StructuredPositions(messages)
    IN  IF ps = {} THEN Null
        ELSE LET p == FirstPosition(ps)
             IN  JSONstringify(messages[p[1]].message.content[p[2]].input)

\* the text of the text blocks of one content array that carry a non-empty text
TextsOfContent(content) ==
    SelectSeq(content, LAMBDA b : b.type = "text" /\ TruthyStr(b, "text"))

RECURSIVE TextBlocks(_)
TextBlocks(messages) ==
    IF messages = <<>> THEN <<>>
    ELSE LET m == Head(messages)
             own == IF m.type = "assistant" /\ HasContent(m)
                    THEN LET ts == TextsOfContent(m.message.content)
                         IN  [i \in 1..Len(ts) |-> ts[i].text]
                    ELSE <<>>
         IN  own \o TextBlocks(Tail(messages))

extractTextFromContent_NoSentinel(messages) == Join(TextBlocks(messages), "\n")

extractTextFromContent(messages) ==
    LET joined == Join(TextBlocks(messages), "\n")
    IN  IF joined # "" THEN joined ELSE NO_TEXT

\* messages.find((m) => m.type === "system" && m.session_id)
SystemIndexes(messages) ==
    {i \in 1..Len(messages) :
        messages[i].type = "system" /\ TruthyStr(messages[i], "session_id")}

\* [...messages].reverse().find((m) => m.type === "result")
ResultIndexes(messages) == {i \in 1..Len(messages) : messages[i].type = "result"}

Min(S) == CHOOSE x \in S : \A y \in S : x <= y

Max(S) == CHOOSE x \in S : \A y \in S : y <= x

sessionIdOf_LastSystem(messages) ==
    IF SystemIndexes(messages) = {} THEN Null
    ELSE messages[Max(SystemIndexes(messages))].session_id

sessionIdOf(messages) ==
    IF SystemIndexes(messages) = {} THEN Null
    ELSE messages[Min(SystemIndexes(messages))].session_id

\* resultMsg?.result, undefined and null alike modelled as Null
resultOf_FirstResult(messages) ==
    IF ResultIndexes(messages) = {} THEN Null
    ELSE LET m == messages[Min(ResultIndexes(messages))]
         IN  IF Has(m, "result") THEN m.result ELSE Null

resultOf(messages) ==
    IF ResultIndexes(messages) = {} THEN Null
    ELSE LET m == messages[Max(ResultIndexes(messages))]
         IN  IF Has(m, "result") THEN m.result ELSE Null

\* a ?? b
OrElse_Nullish(a, b) == IF a # Null THEN a ELSE b

\* a || b on strings
OrElse(a, b) == IF a # Null /\ a # "" THEN a ELSE b

textOf(messages) ==
    OrElse(extractStructuredOutput(messages),
           OrElse(resultOf(messages), extractTextFromContent(messages)))

parseResponse_EmptyAllowed(text) ==
    IF ~JSONparseOk(text) THEN [kind |-> "throw", message |-> ERR_PARSE]
    ELSE LET messages == JSONparseMessages(text)
         IN  [kind |-> "ok", sessionId |-> sessionIdOf(messages),
              text |-> IF messages = <<>> THEN "" ELSE textOf(messages),
              raw |-> messages]

parseResponse(text) ==
    IF ~JSONparseOk(text) THEN [kind |-> "throw", message |-> ERR_PARSE]
    ELSE LET messages == JSONparseMessages(text)
         IN  IF Len(messages) = 0 THEN [kind |-> "throw", message |-> ERR_EMPTY]
             ELSE [kind |-> "ok", sessionId |-> sessionIdOf(messages),
                   text |-> textOf(messages), raw |-> messages]

(***************************************************************************)
(* The messages parseResponse is tried on.  Content blocks: text blocks    *)
(* (one with an empty text), StructuredOutput tool_use blocks with         *)
(* different inputs, with the empty object and with no input, a tool_use   *)
(* block of another tool, and a tool_result block.                         *)
(***************************************************************************)
BlockTextA == [type |-> "text", text |-> "A"]

BlockTextB == [type |-> "text", text |-> "B"]

BlockTextEmpty == [type |-> "text", text |-> ""]

BlockSOHello == [type |-> "tool_use", name |-> STRUCTURED_OUTPUT, input |-> [text |-> "hello"]]

BlockSOOther == [type |-> "tool_use", name |-> STRUCTURED_OUTPUT, input |-> [note |-> "x"]]

BlockSOEmpty == [type |-> "tool_use", name |-> STRUCTURED_OUTPUT, input |-> EmptyObject]

BlockSONoInput == [type |-> "tool_use", name |-> STRUCTURED_OUTPUT]

BlockToolRead == [type |-> "tool_use", name |-> "Read", input |-> [path |-> "n.md"]]

BlockToolResult == [type |-> "tool_result"]

Assistant(content) == [type |-> "assistant", message |-> [role |-> "assistant", content |-> content]]

AssistantMessages ==
    {[type |-> "assistant"],
     [type |-> "assistant", session_id |-> "sess-a"] @@ Assistant(<<BlockTextB>>),
     Assistant(<<>>),
     Assistant(<<BlockTextA, BlockTextB>>),
     Assistant(<<BlockTextEmpty>>),
     Assistant(<<BlockTextA, BlockTextEmpty, BlockTextB>>),
     Assistant(<<BlockToolResult, BlockTextA>>),
     Assistant(<<BlockSONoInput, BlockToolRead>>),
     Assistant(<<BlockSOHello>>),
     Assistant(<<BlockTextA, BlockSOOther, BlockSOHello>>),
     Assistant(<<BlockSOEmpty>>)}

SystemMessages ==
    {[type |-> "system"],
     [type |-> "system", session_id |-> ""],
     [type |-> "system", session_id |-> "abc123"],
     [type |-> "system", session_id |-> "def456"]}

ResultMessages ==
    {[type |-> "result"],
     [type |-> "result", result |-> ""],
     [type |-> "result", result |-> "hi there"],
     [type |-> "result", result |-> "bye", session_id |-> "sess-r"]}

UserMessages ==
    {[type |-> "user", message |-> [role |-> "user", content |-> <<BlockSOOther, BlockTextA>>]]}

MessagePool == SystemMessages \cup AssistantMessages \cup ResultMessages \cup UserMessages

MaxMessages == 3

MessageArrays == UNION {[1..n -> MessagePool] : n \in 0..MaxMessages}

\* what the child may have written when it exits: whole arrays, a bare object,
\* an array cut short, text that is no JSON, nothing
RawInputs ==
    {Serialize(a) : a \in MessageArrays}
        \cup {<<TokMsg(m)>> : m \in MessagePool}
        \cup {<<TokOpen, TokMsg(m)>> : m \in MessagePool}
        \cup {<<TokMsg(m), TokJunk>> : m \in MessagePool}
        \cup {<<>>, <<TokJunk>>, <<TokOpen>>, <<TokOpen, TokClose, TokClose>>}

----------------------------------------------------------------------------
(* SessionManager, the editor and ExpandCommand *)

SESSION_KEY == "claude_session"

Files == {"note.md", "other.md"}

\* view.file of a view that shows no file
NoFile == Null

\* the active view shows note.md or no file
ViewFiles == {"note.md", NoFile}

(***************************************************************************)
(* A frontmatter is a record of YAML scalars; a scalar is a string or a    *)
(* number, told apart by typeof.  The metadata cache getSessionId reads    *)
(* and the file processFrontMatter writes are one frontmatter per file:    *)
(* the cache holds what the file holds.                                    *)
(***************************************************************************)
YamlString(s) == [str |-> s]

YamlNumber(n) == [num |-> n]

\* typeof value === "string"
IsYamlString(v) == Has(v, "str")

getSessionId_Fresh(fm, file) == Null

\* cache?.frontmatter?.[SESSION_KEY], a string or null
getSessionId(fm, file) ==
    IF Has(fm[file], SESSION_KEY) /\ IsYamlString(fm[file][SESSION_KEY])
    THEN fm[file][SESSION_KEY].str
    ELSE Null

setSessionId_KeepExisting(fm, file, sessionId) ==
    [fm EXCEPT ![file] = @ @@ (SESSION_KEY :> YamlString(sessionId))]

setSessionId_ReplaceBlock(fm, file, sessionId) ==
    [fm EXCEPT ![file] = (SESSION_KEY :> YamlString(sessionId))]

\* processFrontMatter(file, (fm) => { fm[SESSION_KEY] = sessionId })
setSessionId(fm, file, sessionId) ==
    [fm EXCEPT ![file] = (SESSION_KEY :> YamlString(sessionId)) @@ @]

clearSession_Blank(fm, file) ==
    [fm EXCEPT ![file] = (SESSION_KEY :> YamlString("")) @@ @]

\* processFrontMatter(file, (fm) => { delete fm[SESSION_KEY] })
clearSession(fm, file) ==
    [fm EXCEPT ![file] = [k \in DOMAIN @ \ {SESSION_KEY} |-> @[k]]]

(***************************************************************************)
(* The editor: the note's text as a sequence of pieces and the selection   *)
(* as the range from..to of pieces (empty when to = from - 1).             *)
(* replaceSelection puts the text in place of the selected pieces and      *)
(* leaves an empty selection behind it.                                    *)
(***************************************************************************)
getSelection(ed) == Join(SubSeq(ed.doc, ed.from, ed.to), "")

replaceSelection(ed, text) ==
    [doc  |-> SubSeq(ed.doc, 1, ed.from - 1) \o <<text>>
                 \o SubSeq(ed.doc, ed.to + 1, Len(ed.doc)),
     from |-> ed.from + 1,
     to   |-> ed.from]

DEFAULT_SETTINGS ==
    [debugMode |-> TRUE,
     cliPath |-> "",
     systemPrompt |-> "You are a helpful assistant working inside an Obsidian vault. Respond in clean Markdown.",
     model |-> "sonnet",
     maxBudgetTokens |-> DEFAULT_MAX_BUDGET]

\* ExpandCommand.buildPrompt
buildPrompt(selection) ==
    Join(<<"Expand and improve the following text.",
           "Keep the same tone and style.",
           "Return only the improved text, no preamble.",
           "",
           "---",
           selection,
           "---">>, "\n")

COMMAND_NAME == "Expand selection with Claude"

requiresSelection_Never == FALSE

\* BaseCommand.requiresSelection, which ExpandCommand does not override
requiresSelection == TRUE

RunningNotice == "Running: " \o COMMAND_NAME \o "..."

CompleteNotice == COMMAND_NAME \o " complete"

ErrorNotice_Unknown(message) == "Claude Bridge error: Unknown error"

ErrorNotice(message) == "Claude Bridge error: " \o message

EXPANDED == "The cat sat quietly on the warm windowsill."

\* the objects whose compact JSON the model's JSON.parse recognises
JsonObjects ==
    {EmptyObject, [text |-> "hello"], [text |-> EXPANDED], [note |-> "x"], [path |-> "n.md"]}

\* JSON.parse(response.text): the object, or a SyntaxError
JSONparseText(text) ==
    IF \E o \in JsonObjects : JSONstringify(o) = text
    THEN [ok |-> TRUE, value |-> CHOOSE o \in JsonObjects : JSONstringify(o) = text]
    ELSE [ok |-> FALSE, message |-> "SyntaxError: Unexpected token in JSON"]

\* TextResponseSchema.zodSchema.parse: an object with a string text, other keys stripped
zodParse(value) ==
    IF Has(value, "text")
    THEN [ok |-> TRUE, output |-> [text |-> value.text]]
    ELSE [ok |-> FALSE, message |-> "ZodError: text: Required"]

validate_Unchecked(text) == [ok |-> TRUE, output |-> [text |-> text]]

\* execute's schema branch: JSON.parse, then zodSchema.parse
validate(text) ==
    LET decoded == JSONparseText(text)
    IN  IF decoded.ok THEN zodParse(decoded.value) ELSE decoded

\* BaseCommand.render, which ExpandCommand overrides
render_Base(ed, output) == replaceSelection(ed, JSONstringify(output))

\* ExpandCommand.render
render(ed, output) == replaceSelection(ed, output.text)

----------------------------------------------------------------------------
(* callClaude: the child process, its events and the promise *)

Whitespace == {" ", "\n", "\t"}

RECURSIVE TrimStart(_)
TrimStart(s) ==
    IF s # <<>> /\ Head(s) \in Whitespace THEN TrimStart(Tail(s)) ELSE s

RECURSIVE TrimEnd(_)
TrimEnd(s) ==
    IF s # <<>> /\ s[Len(s)] \in Whitespace THEN TrimEnd(SubSeq(s, 1, Len(s) - 1)) ELSE s

\* String.prototype.trim on a text held as a sequence of pieces
Trim(s) == TrimEnd(TrimStart(s))

\* `${code}` of the close event's code, a number or null
CodeString(ev) == IF Has(ev, "code") THEN ToString(ev.code) ELSE "null"

\* code === 0
ExitedZero(ev) == Has(ev, "code") /\ ev.code = 0

ExitError(ev, err) ==
    "claude CLI exited with code " \o CodeString(ev) \o ": " \o Join(Trim(err), "")

Pending == [state |-> "pending"]

Settle_LastWins(o, call) ==
    IF call.fn = "resolve" THEN [state |-> "fulfilled", value |-> call.value]
    ELSE [state |-> "rejected", reason |-> call.reason]

\* resolve and reject settle the promise once; later calls change nothing
Settle(o, call) ==
    IF o.state # "pending" THEN o
    ELSE IF call.fn = "resolve" THEN [state |-> "fulfilled", value |-> call.value]
    ELSE [state |-> "rejected", reason |-> call.reason]

errorHandler_NoMessage(message) ==
    [fn |-> "reject", reason |-> "Failed to spawn claude CLI"]

\* proc.on("error", ...)
errorHandler(message) ==
    [fn |-> "reject", reason |-> "Failed to spawn claude CLI: " \o message]

closeHandler_IgnoresCode(ev, out, err) ==
    LET r == parseResponse(out)
    IN  [parsed |-> r,
         call |-> IF r.kind = "ok" THEN [fn |-> "resolve", value |-> r]
                  ELSE [fn |-> "reject", reason |-> r.message]]

\* proc.on("close", ...): the call it makes on the promise, and what it parsed
closeHandler(ev, out, err) ==
    IF ~ExitedZero(ev)
    THEN [parsed |-> ParseIdle,
          call |-> [fn |-> "reject", reason |-> ExitError(ev, err)]]
    ELSE LET r == parseResponse(out)
         IN  [parsed |-> r,
              call |-> IF r.kind = "ok" THEN [fn |-> "resolve", value |-> r]
                       ELSE [fn |-> "reject", reason |-> r.message]]

MsgSystem == [type |-> "system", session_id |-> "abc123"]

MsgExpanded ==
    Assistant(<<[type |-> "tool_use", name |-> STRUCTURED_OUTPUT, input |-> [text |-> EXPANDED]]>>)

MsgResult == [type |-> "result", result |-> "hi there"]

\* what a child process may write to stdout before it exits
ChildOutputs ==
    {Serialize(<<MsgSystem, MsgExpanded, MsgResult>>),
     Serialize(<<MsgExpanded>>),
     Serialize(<<MsgSystem, Assistant(<<BlockTextA, BlockSOOther>>)>>),
     Serialize(<<MsgSystem, MsgResult>>),
     Serialize(<<>>),
     <<TokOpen, TokMsg(MsgSystem), TokMsg(MsgExpanded)>>,
     <<TokJunk>>,
     <<>>}

\* what it may write to stderr
ChildErrors ==
    {<<>>, <<" ", "authentication expired", "\n">>}

\* the message of the error event of a child that could not be spawned
SpawnErrors == {"spawn claude ENOENT", "spawn claude EACCES"}

\* the (code, signal) of the close event of a child that ran
ExitEvents == {[code |-> 0], [code |-> 1], [signal |-> "SIGTERM"]}

\* the close event that follows the error event of a failed spawn
SpawnFailedExit == [code |-> -2]

ChildPlans ==
    {[ok |-> TRUE, out |-> o, err |-> e] : o \in ChildOutputs, e \in ChildErrors}
        \cup {[ok |-> FALSE, error |-> m] : m \in SpawnErrors}

NoProc == [state |-> "none"]

\* spawn(bin, args, ...): out and err are what the child has yet to write,
\* plan what it does in all
spawn(bin, plan) ==
    IF plan.ok
    THEN [state |-> "running", bin |-> bin, out |-> plan.out, err |-> plan.err,
          plan |-> plan]
    ELSE [state |-> "spawnFailed", bin |-> bin, out |-> <<>>, err |-> <<>>,
          error |-> plan.error, plan |-> plan]

----------------------------------------------------------------------------
(* The settings tab: the max budget field *)

NaN == [nan |-> TRUE]

\* the number Infinity, above every integer of the model
Infinity == 2147483647

\* a run of 309 digits typed or pasted as one piece: it reads as a number
\* above the largest finite double
LongDigits == "999999999999999999999999999999999999999999999999999999999999999999999999999999999999999999999999999999999999999999999999999999999999999999999999999999999999999999999999999999999999999999999999999999999999999999999999999999999999999999999999999999999999999999999999999999999999999999999999999999999999999999999"

\* the value of a decimal digit, -1 for any other character
DigitValue(c) ==
    IF \E n \in 0..9 : ToString(n) = c THEN CHOOSE n \in 0..9 : ToString(n) = c ELSE -1

RECURSIVE ParseDigits(_, _, _)
\* the longest run of digits at the head of chars, read as a decimal number,
\* which is Infinity once it is above the largest finite double
ParseDigits(chars, seen, acc) ==
    IF chars # <<>> /\ Head(chars) = LongDigits
    THEN ParseDigits(Tail(chars), TRUE, Infinity)
    ELSE IF chars # <<>> /\ DigitValue(Head(chars)) >= 0
    THEN ParseDigits(Tail(chars), TRUE,
                     IF acc = Infinity THEN Infinity
                     ELSE 10 * acc + DigitValue(Head(chars)))
    ELSE IF seen THEN [value |-> acc] ELSE NaN

\* parseInt(value, 10) of a text held as a sequence of characters: leading
\* whitespace skipped, an optional sign, digits up to the first other character
parseInt(value) ==
    LET chars == TrimStart(value)
        signed == chars # <<>> /\ Head(chars) \in {"+", "-"}
        digits == ParseDigits(IF signed THEN Tail(chars) ELSE chars, FALSE, 0)
    IN  IF digits = NaN THEN NaN
        ELSE IF signed /\ Head(chars) = "-" THEN [value |-> 0 - digits.value]
        ELSE digits

\* !isNaN(parsed) && parsed > 0
acceptsBudget(n) == n # NaN /\ n.value > 0

\* what the user may type into the field
BudgetInputs ==
    {<<>>, <<"a", "b">>, <<"0">>, <<"-", "5">>, <<"1", "2">>, <<"1", "2", "a">>,
     <<"1", ".", "5">>, <<" ", "+", "7">>, <<"0", "0", "3", "0">>,
     <<LongDigits>>, <<"-", LongDigits, "1">>}

MaxEdits == 2

\* nothing saved, nothing typed
NoData == [edits |-> 0, saves |-> 0]

\* the invocations that may be in flight together
Invocations == {1, 2}

\* none of them has started
NoConcurrent ==
    [calls |-> [i \in Invocations |-> [pc |-> "idle"]], order |-> <<>>, writes |-> <<>>]

----------------------------------------------------------------------------
(* The command lifecycle *)

MaxChunk == 2

MaxRuns == 2

\* inv.steps lists the calls execute has made, in order
NoInvocation ==
    [file |-> NoFile, status |-> "none", spawns |-> 0, edited |-> FALSE, steps |-> <<>>]

\* no SessionManager operation has been applied
NoOperation == [op |-> "none"]

InitialEditors ==
    {[doc |-> <<"the cat sat", " on the mat">>, from |-> 1, to |-> t] : t \in 0..1}

InitialFrontmatter ==
    {[f \in Files |-> IF f = "note.md" THEN n
                      ELSE [claude_session |-> YamlString("zzz999")]] :
        n \in {[title |-> YamlString("Note")],
               [title |-> YamlString("Note"), claude_session |-> YamlString("old111")]}}

callVars == <<options, args, stdout, stderr, parsed, proc, outcome, settleCalls>>

hostVars == <<settings, frontmatter, editor>>

commandVars == <<pc, notices, inv, runs>>

vars == <<options, args, stdout, stderr, parsed, proc, outcome, settleCalls,
          settings, frontmatter, editor, pc, notices, inv, runs, sm, data, conc>>

\* no call is in flight and none has been made
NoCall ==
    /\ options = NoOptions
    /\ args = <<>>
    /\ stdout = <<>>
    /\ stderr = <<>>
    /\ parsed = ParseIdle
    /\ proc = NoProc
    /\ outcome = Pending
    /\ settleCalls = <<>>

Init ==
    /\ NoCall
    /\ settings = DEFAULT_SETTINGS
    /\ frontmatter \in InitialFrontmatter
    /\ editor \in InitialEditors
    /\ pc = "idle"
    /\ notices = <<>>
    /\ inv = NoInvocation
    /\ runs = 0
    /\ sm = NoOperation
    /\ data = NoData
    /\ conc = NoConcurrent

(***************************************************************************)
(* BaseCommand.execute up to its await of callClaude, with callClaude up   *)
(* to the return of its promise: the precondition checks, the session      *)
(* lookup, the prompt, the options, the notice, buildArgs and spawn.       *)
(***************************************************************************)
Execute(file, plan) ==
    /\ pc = "idle"
    /\ proc.state \in {"none", "closed"}
    /\ runs < MaxRuns
    /\ runs' = runs + 1
    /\ UNCHANGED <<hostVars, sm, data, conc>>
    /\ LET selection == getSelection(editor)
           started == [file |-> file, status |-> "running", spawns |-> 0,
                       edited |-> FALSE, steps |-> <<>>, editor0 |-> editor,
                       frontmatter0 |-> frontmatter]
       IN  IF file = NoFile \/ (selection = "" /\ requiresSelection)
           THEN /\ notices' = <<IF file = NoFile THEN "No active file"
                                ELSE "Select some text first">>
                /\ inv' = [started EXCEPT !.status = "precondition"]
                /\ pc' = "idle"
                /\ options' = NoOptions
                /\ args' = <<>>
                /\ stdout' = <<>>
                /\ stderr' = <<>>
                /\ parsed' = ParseIdle
                /\ proc' = NoProc
                /\ outcome' = Pending
                /\ settleCalls' = <<>>
           ELSE LET sessionId == getSessionId(frontmatter, file)
                    callOptions ==
                        [prompt |-> buildPrompt(selection),
                         model |-> settings.model,
                         systemPrompt |-> settings.systemPrompt,
                         jsonSchema |-> TextJsonSchema,
                         maxTokens |-> settings.maxBudgetTokens]
                          @@ (IF sessionId # Null THEN [sessionId |-> sessionId]
                              ELSE EmptyObject)
                    bin == IF settings.cliPath # "" THEN settings.cliPath ELSE "claude"
                IN  /\ options' = callOptions
                    /\ args' = buildArgs(callOptions)
                    /\ proc' = spawn(bin, plan)
                    /\ stdout' = <<>>
                    /\ stderr' = <<>>
                    /\ parsed' = ParseIdle
                    /\ outcome' = Pending
                    /\ settleCalls' = <<>>
                    /\ notices' = <<RunningNotice>>
                    /\ inv' = [started EXCEPT !.spawns = 1,
                                               !.steps = <<"getSessionId", "callClaude">>]
                    /\ pc' = "awaitCall"

\* a data handler that keeps the latest chunk only
StdoutData_KeepLast(n) ==
    /\ proc.state = "running"
    /\ pc # "settled"
    /\ n <= Len(proc.out)
    /\ stdout' = SubSeq(proc.out, 1, n)
    /\ proc' = [proc EXCEPT !.out = SubSeq(@, n + 1, Len(@))]
    /\ UNCHANGED <<options, args, stderr, parsed, outcome, settleCalls>>
    /\ UNCHANGED <<hostVars, commandVars, sm, data, conc>>

\* proc.stdout.on("data", ...)
StdoutData(n) ==
    /\ proc.state = "running"
    /\ pc # "settled"
    /\ n <= Len(proc.out)
    /\ stdout' = stdout \o SubSeq(proc.out, 1, n)
    /\ proc' = [proc EXCEPT !.out = SubSeq(@, n + 1, Len(@))]
    /\ UNCHANGED <<options, args, stderr, parsed, outcome, settleCalls>>
    /\ UNCHANGED <<hostVars, commandVars, sm, data, conc>>

\* proc.stderr.on("data", ...)
StderrData(n) ==
    /\ proc.state = "running"
    /\ pc # "settled"
    /\ n <= Len(proc.err)
    /\ stderr' = stderr \o SubSeq(proc.err, 1, n)
    /\ proc' = [proc EXCEPT !.err = SubSeq(@, n + 1, Len(@))]
    /\ UNCHANGED <<options, args, stdout, parsed, outcome, settleCalls>>
    /\ UNCHANGED <<hostVars, commandVars, sm, data, conc>>

\* proc.on("error", ...) of a child that could not be spawned
ProcError ==
    /\ proc.state = "spawnFailed"
    /\ pc # "settled"
    /\ LET call == errorHandler(proc.error)
       IN  /\ outcome' = Settle(outcome, call)
           /\ settleCalls' = Append(settleCalls, [from |-> "error", call |-> call])
    /\ proc' = [proc EXCEPT !.state = "errored"]
    /\ pc' = IF outcome.state = "pending" THEN "settled" ELSE pc
    /\ UNCHANGED <<options, args, stdout, stderr, parsed>>
    /\ UNCHANGED <<hostVars, notices, inv, runs, sm, data, conc>>

(***************************************************************************)
(* proc.on("close", ...).  The close event follows the end of the child's  *)
(* streams, so everything the child wrote has arrived; after a failed      *)
(* spawn it follows the error event and carries the negative errno.        *)
(***************************************************************************)
ProcClose(ev) ==
    /\ pc # "settled"
    /\ \/ /\ proc.state = "running"
          /\ proc.out = <<>>
          /\ proc.err = <<>>
          /\ ev \in ExitEvents
       \/ /\ proc.state = "errored"
          /\ ev = SpawnFailedExit
    /\ LET h == closeHandler(ev, stdout, stderr)
       IN  /\ outcome' = Settle(outcome, h.call)
           /\ parsed' = h.parsed
           /\ settleCalls' = Append(settleCalls, [from |-> "close", call |-> h.call])
    /\ proc' = [state |-> "closed", exit |-> ev] @@ proc
    /\ pc' = IF outcome.state = "pending" THEN "settled" ELSE pc
    /\ UNCHANGED <<options, args, stdout, stderr>>
    /\ UNCHANGED <<hostVars, notices, inv, runs, sm, data, conc>>

\* a catch block that calls callClaude once more
Fail_Retry(message, steps) ==
    /\ proc' = [state |-> "running", bin |-> proc.bin, out |-> <<>>, err |-> <<>>,
                plan |-> proc.plan]
    /\ stdout' = <<>>
    /\ stderr' = <<>>
    /\ parsed' = ParseIdle
    /\ outcome' = Pending
    /\ settleCalls' = <<>>
    /\ inv' = [inv EXCEPT !.spawns = @ + 1, !.steps = Append(steps, "callClaude")]
    /\ pc' = "awaitCall"
    /\ UNCHANGED <<options, args, notices, editor>>

\* the catch block of execute, reached after the calls steps
Fail(message, steps) ==
    /\ notices' = Append(notices, ErrorNotice(message))
    /\ inv' = [inv EXCEPT !.status = "failed", !.steps = steps]
    /\ pc' = "idle"
    /\ UNCHANGED <<callVars, editor>>

\* an execute that renders into the selection it met at its start
Finish_Snapshot(response) ==
    LET v == validate(response.text)
        validated == Append(inv.steps, "validate")
    IN  IF v.ok
        THEN /\ editor' = render(inv.editor0, v.output)
             /\ notices' = Append(notices, CompleteNotice)
             /\ inv' = [inv EXCEPT !.status = "ok", !.steps = Append(validated, "render")]
             /\ pc' = "idle"
             /\ UNCHANGED callVars
        ELSE Fail(v.message, validated)

\* execute from the schema validation to its end
Finish(response) ==
    LET v == validate(response.text)
        validated == Append(inv.steps, "validate")
    IN  IF v.ok
        THEN /\ editor' = render(editor, v.output)
             /\ notices' = Append(notices, CompleteNotice)
             /\ inv' = [inv EXCEPT !.status = "ok", !.steps = Append(validated, "render")]
             /\ pc' = "idle"
             /\ UNCHANGED callVars
        ELSE Fail(v.message, validated)

(***************************************************************************)
(* execute resumes when the promise of callClaude has settled: the catch   *)
(* block on a rejection; on a response, the call of setSessionId if the    *)
(* response carries a session id (execute then awaits the write), and      *)
(* otherwise validation and render at once.                                *)
(***************************************************************************)
Resume_AlwaysPersist ==
    /\ pc = "settled"
    /\ IF outcome.state = "rejected"
       THEN Fail(outcome.reason, inv.steps)
       ELSE /\ pc' = "awaitSetSession"
            /\ inv' = [inv EXCEPT !.steps = Append(@, "setSessionId")]
            /\ UNCHANGED <<callVars, editor, notices>>
    /\ UNCHANGED <<settings, frontmatter, runs, sm, data, conc>>

Resume ==
    /\ pc = "settled"
    /\ IF outcome.state = "rejected"
       THEN Fail(outcome.reason, inv.steps)
       ELSE IF TruthyStr(outcome.value, "sessionId")
       THEN /\ pc' = "awaitSetSession"
            /\ inv' = [inv EXCEPT !.steps = Append(@, "setSessionId")]
            /\ UNCHANGED <<callVars, editor, notices>>
       ELSE Finish(outcome.value)
    /\ UNCHANGED <<settings, frontmatter, runs, sm, data, conc>>

\* processFrontMatter has written the session id; execute runs to its end
SessionWritten ==
    /\ pc = "awaitSetSession"
    /\ frontmatter' = setSessionId(frontmatter, inv.file, outcome.value.sessionId)
    /\ Finish(outcome.value)
    /\ UNCHANGED <<settings, runs, sm, data, conc>>

(***************************************************************************)
(* The user puts the cursor somewhere or selects one piece of the text,    *)
(* between invocations or, once, while an invocation is in flight.         *)
(***************************************************************************)
UserSelect(from, to) ==
    /\ pc # "settled"
    /\ pc # "idle" => ~inv.edited
    /\ to \in {from - 1, from}
    /\ to <= Len(editor.doc)
    /\ <<from, to>> # <<editor.from, editor.to>>
    /\ editor' = [editor EXCEPT !.from = from, !.to = to]
    /\ inv' = [inv EXCEPT !.edited = TRUE]
    /\ UNCHANGED <<callVars, settings, frontmatter, pc, notices, runs, sm, data, conc>>

Next ==
    \/ \E file \in ViewFiles, plan \in ChildPlans : Execute(file, plan)
    \/ \E n \in 1..MaxChunk : StdoutData(n)
    \/ \E n \in 1..MaxChunk : StderrData(n)
    \/ ProcError
    \/ \E ev \in ExitEvents \cup {SpawnFailedExit} : ProcClose(ev)
    \/ Resume
    \/ SessionWritten
    \/ \E from \in 1..(Len(editor.doc) + 1), to \in 0..Len(editor.doc) : UserSelect(from, to)

Spec == Init /\ [][Next]_vars

----------------------------------------------------------------------------
(* buildArgs and parseResponse on their own *)

\* the command lifecycle at rest
AtRest ==
    /\ stderr = <<>>
    /\ proc = NoProc
    /\ outcome = Pending
    /\ settleCalls = <<>>
    /\ settings = DEFAULT_SETTINGS
    /\ frontmatter = [f \in Files |-> EmptyObject]
    /\ editor = [doc |-> <<>>, from |-> 1, to |-> 0]
    /\ pc = "idle"
    /\ notices = <<>>
    /\ inv = NoInvocation
    /\ runs = 0
    /\ sm = NoOperation
    /\ data = NoData
    /\ conc = NoConcurrent

restVars == <<stderr, proc, outcome, settleCalls, settings, frontmatter, editor,
              pc, notices, inv, runs, sm, data, conc>>

InitArgs ==
    /\ options \in CallOptionsSet
    /\ args = <<>>
    /\ stdout = <<>>
    /\ parsed = ParseIdle
    /\ AtRest

BuildArgs ==
    /\ args = <<>>
    /\ args' = buildArgs(options)
    /\ UNCHANGED <<options, stdout, parsed, restVars>>

NextArgs == BuildArgs

SpecArgs == InitArgs /\ [][NextArgs]_vars

InitParse ==
    /\ stdout \in RawInputs
    /\ parsed = ParseIdle
    /\ options = NoOptions
    /\ args = <<>>
    /\ AtRest

ParseResponse ==
    /\ parsed = ParseIdle
    /\ parsed' = parseResponse(stdout)
    /\ UNCHANGED <<options, args, stdout, restVars>>

NextParse == ParseResponse

SpecParse == InitParse /\ [][NextParse]_vars

----------------------------------------------------------------------------
(* The SessionManager on its own *)

\* the session ids handed to setSessionId
SessionIds == {"abc123", "def456", ""}

\* the frontmatter a note may start with: none, no session field, a session
\* id, a session field that is no string
InitialBlocks ==
    {EmptyObject,
     [title |-> YamlString("Note")],
     [title |-> YamlString("Note"), claude_session |-> YamlString("old111")],
     [claude_session |-> YamlNumber(12345), tags |-> YamlString("draft")]}

\* sm.base is the frontmatter before the first operation, sm.touched the
\* files setSessionId or clearSession has been applied to since
InitStore ==
    /\ options = NoOptions
    /\ args = <<>>
    /\ stdout = <<>>
    /\ parsed = ParseIdle
    /\ stderr = <<>>
    /\ proc = NoProc
    /\ outcome = Pending
    /\ settleCalls = <<>>
    /\ settings = DEFAULT_SETTINGS
    /\ frontmatter \in [Files -> InitialBlocks]
    /\ editor = [doc |-> <<>>, from |-> 1, to |-> 0]
    /\ pc = "idle"
    /\ notices = <<>>
    /\ inv = NoInvocation
    /\ runs = 0
    /\ sm = [op |-> "none", touched |-> {}, base |-> frontmatter]
    /\ data = NoData
    /\ conc = NoConcurrent

storeFrame == <<options, args, stdout, parsed, stderr, proc, outcome, settleCalls,
                settings, editor, pc, notices, inv, runs, data, conc>>

\* the operation sm records, without its history
Operation(o) ==
    IF o.op = "set" THEN [op |-> "set", file |-> o.file, id |-> o.id]
    ELSE IF o.op = "clear" THEN [op |-> "clear", file |-> o.file]
    ELSE [op |-> o.op]

\* sessionManager.getSessionId(file)
GetSessionId(file) ==
    /\ sm' = [op |-> "get", file |-> file, result |-> getSessionId(frontmatter, file),
              after |-> Operation(sm), touched |-> sm.touched, base |-> sm.base]
    /\ UNCHANGED <<frontmatter, storeFrame>>

\* await sessionManager.setSessionId(file, sessionId)
SetSessionId(file, sessionId) ==
    /\ frontmatter' = setSessionId(frontmatter, file, sessionId)
    /\ sm' = [op |-> "set", file |-> file, id |-> sessionId,
              touched |-> sm.touched \cup {file}, base |-> sm.base]
    /\ UNCHANGED storeFrame

\* await sessionManager.clearSession(file)
ClearSession(file) ==
    /\ frontmatter' = clearSession(frontmatter, file)
    /\ sm' = [op |-> "clear", file |-> file,
              touched |-> sm.touched \cup {file}, base |-> sm.base]
    /\ UNCHANGED storeFrame

NextStore ==
    \/ \E file \in Files : GetSessionId(file)
    \/ \E file \in Files, sessionId \in SessionIds : SetSessionId(file, sessionId)
    \/ \E file \in Files : ClearSession(file)

SpecStore == InitStore /\ [][NextStore]_vars

----------------------------------------------------------------------------
(* The handlers of one callClaude promise on their own *)

\* neither the error nor the close event of the child has fired
NoEvents == [state |-> "spawned", fired |-> {}]

\* the promise is pending, the child has written all it writes
InitEvents ==
    /\ options = NoOptions
    /\ args = <<>>
    /\ stdout \in ChildOutputs
    /\ stderr \in ChildErrors
    /\ parsed = ParseIdle
    /\ proc = NoEvents
    /\ outcome = Pending
    /\ settleCalls = <<>>
    /\ settings = DEFAULT_SETTINGS
    /\ frontmatter = [f \in Files |-> EmptyObject]
    /\ editor = [doc |-> <<>>, from |-> 1, to |-> 0]
    /\ pc = "idle"
    /\ notices = <<>>
    /\ inv = NoInvocation
    /\ runs = 0
    /\ sm = NoOperation
    /\ data = NoData
    /\ conc = NoConcurrent

eventsFrame == <<options, args, stdout, stderr, settings, frontmatter, editor,
                 pc, notices, inv, runs, sm, data, conc>>

\* proc.on("error", ...), whenever the event fires
ErrorEvent(message) ==
    /\ "error" \notin proc.fired
    /\ LET call == errorHandler(message)
       IN  /\ outcome' = Settle(outcome, call)
           /\ settleCalls' = Append(settleCalls, [from |-> "error", call |-> call])
    /\ proc' = [proc EXCEPT !.fired = @ \cup {"error"}]
    /\ UNCHANGED <<parsed, eventsFrame>>

\* proc.on("close", ...), whenever the event fires
CloseEvent(ev) ==
    /\ "close" \notin proc.fired
    /\ LET h == closeHandler(ev, stdout, stderr)
       IN  /\ outcome' = Settle(outcome, h.call)
           /\ parsed' = h.parsed
           /\ settleCalls' = Append(settleCalls, [from |-> "close", call |-> h.call])
    /\ proc' = [proc EXCEPT !.fired = @ \cup {"close"}]
    /\ UNCHANGED eventsFrame

NextEvents ==
    \/ \E message \in SpawnErrors : ErrorEvent(message)
    \/ \E ev \in ExitEvents \cup {SpawnFailedExit} : CloseEvent(ev)

SpecEvents == InitEvents /\ [][NextEvents]_vars

----------------------------------------------------------------------------
(* The settings tab and the command *)

(***************************************************************************)
(* onChange of the max budget field: a value that parses to a positive     *)
(* integer is put into plugin.settings, the object the command reads, and  *)
(* saved with saveData.  data.input and data.before keep the text typed    *)
(* and the settings and the count of saves it met.                         *)
(***************************************************************************)
EditMaxBudget(value) ==
    /\ data.edits < MaxEdits
    /\ LET number == parseInt(value)
           typed == [edits |-> data.edits + 1, saves |-> data.saves, input |-> value,
                     before |-> [settings |-> settings, saves |-> data.saves]]
                       @@ (IF Has(data, "saved") THEN [saved |-> data.saved]
                           ELSE EmptyObject)
       IN  IF acceptsBudget(number)
           THEN /\ settings' = [settings EXCEPT !.maxBudgetTokens = number.value]
                /\ data' = [saved |-> settings'] @@ [typed EXCEPT !.saves = @ + 1]
           ELSE /\ data' = typed
                /\ UNCHANGED settings
    /\ UNCHANGED <<callVars, frontmatter, editor, commandVars, sm, conc>>

\* the children of SpecSettings: one that cannot be spawned, one that writes nothing
SettingsPlans ==
    {[ok |-> TRUE, out |-> <<>>, err |-> <<>>],
     [ok |-> FALSE, error |-> "spawn claude ENOENT"]}

NextSettings ==
    \/ \E value \in BudgetInputs : EditMaxBudget(value)
    \/ \E file \in ViewFiles, plan \in SettingsPlans : Execute(file, plan)
    \/ ProcError
    \/ \E ev \in ExitEvents \cup {SpawnFailedExit} : ProcClose(ev)
    \/ Resume

SpecSettings == Init /\ [][NextSettings]_vars

----------------------------------------------------------------------------
(* Invocations of execute in flight together on one note *)

\* the note every invocation of SpecConcurrent runs on
SharedFile == "note.md"

MsgSystemOf(id) == [type |-> "system", session_id |-> id]

\* what the children write: an expansion, under one of two session ids or none
ConcurrentOutputs ==
    {Serialize(<<MsgSystemOf(id), MsgExpanded>>) : id \in {"abc123", "def456"}}
        \cup {Serialize(<<MsgExpanded>>), Serialize(<<MsgSystemOf("abc123"), MsgResult>>)}

InitConcurrent ==
    /\ NoCall
    /\ settings = DEFAULT_SETTINGS
    /\ frontmatter \in InitialFrontmatter
    /\ editor = [doc |-> <<"the cat sat", " on the mat">>, from |-> 1, to |-> 1]
    /\ pc = "idle"
    /\ notices = <<>>
    /\ inv = NoInvocation
    /\ runs = 0
    /\ sm = NoOperation
    /\ data = NoData
    /\ conc = NoConcurrent

concurrentFrame == <<callVars, settings, pc, inv, runs, sm, data>>

\* execute of invocation i up to its await of callClaude
ConcurrentExecute(i) ==
    /\ conc.calls[i].pc = "idle"
    /\ LET selection == getSelection(editor)
       IN  IF selection = "" /\ requiresSelection
           THEN /\ notices' = Append(notices, "Select some text first")
                /\ conc' = [conc EXCEPT !.calls[i] = [pc |-> "done", status |-> "precondition"]]
           ELSE LET sessionId == getSessionId(frontmatter, SharedFile)
                    callOptions ==
                        [prompt |-> buildPrompt(selection),
                         model |-> settings.model,
                         systemPrompt |-> settings.systemPrompt,
                         jsonSchema |-> TextJsonSchema,
                         maxTokens |-> settings.maxBudgetTokens]
                          @@ (IF sessionId # Null THEN [sessionId |-> sessionId]
                              ELSE EmptyObject)
                IN  /\ notices' = Append(notices, RunningNotice)
                    /\ conc' = [conc EXCEPT
                                   !.calls[i] = [pc |-> "awaitCall", status |-> "running",
                                                 args |-> buildArgs(callOptions),
                                                 outcome |-> Pending],
                                   !.order = Append(@, i)]
    /\ UNCHANGED <<frontmatter, editor, concurrentFrame>>

\* the child of invocation i has written out and closes: the close handler
ConcurrentClose(i, out, ev) ==
    /\ conc.calls[i].pc = "awaitCall"
    /\ conc' = [conc EXCEPT
                   !.calls[i].outcome = Settle(@, closeHandler(ev, out, <<>>).call),
                   !.calls[i].pc = "settled"]
    /\ UNCHANGED <<frontmatter, editor, notices, concurrentFrame>>

\* execute of invocation i from the schema validation to its end, or its catch block
ConcurrentFinish(i, failure) ==
    LET v == IF failure # Null THEN [ok |-> FALSE, message |-> failure]
             ELSE validate(conc.calls[i].outcome.value.text)
    IN  IF v.ok
        THEN /\ editor' = render(editor, v.output)
             /\ notices' = Append(notices, CompleteNotice)
             /\ conc' = [conc EXCEPT !.calls[i].pc = "done", !.calls[i].status = "ok"]
        ELSE /\ notices' = Append(notices, ErrorNotice(v.message))
             /\ conc' = [conc EXCEPT !.calls[i].pc = "done", !.calls[i].status = "failed"]
             /\ UNCHANGED editor

\* execute of invocation i resumes after its await of callClaude
ConcurrentResume(i) ==
    /\ conc.calls[i].pc = "settled"
    /\ LET o == conc.calls[i].outcome
       IN  IF o.state = "rejected" THEN ConcurrentFinish(i, o.reason)
           ELSE IF TruthyStr(o.value, "sessionId")
           THEN /\ conc' = [conc EXCEPT !.calls[i].pc = "awaitSetSession"]
                /\ UNCHANGED <<editor, notices>>
           ELSE ConcurrentFinish(i, Null)
    /\ UNCHANGED <<frontmatter, concurrentFrame>>

\* processFrontMatter has written the session id of invocation i; execute runs on
ConcurrentSessionWritten(i) ==
    /\ conc.calls[i].pc = "awaitSetSession"
    /\ LET id == conc.calls[i].outcome.value.sessionId
           v == validate(conc.calls[i].outcome.value.text)
           written == Append(conc.writes, [by |-> i, id |-> id])
       IN  /\ frontmatter' = setSessionId(frontmatter, SharedFile, id)
           /\ IF v.ok
              THEN /\ editor' = render(editor, v.output)
                   /\ notices' = Append(notices, CompleteNotice)
                   /\ conc' = [conc EXCEPT !.calls[i].pc = "done",
                                           !.calls[i].status = "ok",
                                           !.writes = written]
              ELSE /\ notices' = Append(notices, ErrorNotice(v.message))
                   /\ conc' = [conc EXCEPT !.calls[i].pc = "done",
                                           !.calls[i].status = "failed",
                                           !.writes = written]
                   /\ UNCHANGED editor
    /\ UNCHANGED concurrentFrame

NextConcurrent ==
    \/ \E i \in Invocations : ConcurrentExecute(i)
    \/ \E i \in Invocations, out \in ConcurrentOutputs, ev \in {[code |-> 0], [code |-> 1]} :
          ConcurrentClose(i, out, ev)
    \/ \E i \in Invocations : ConcurrentResume(i)
    \/ \E i \in Invocations : ConcurrentSessionWritten(i)

SpecConcurrent == InitConcurrent /\ [][NextConcurrent]_vars

----------------------------------------------------------------------------
(* The claims about buildArgs, under SpecArgs *)

\* §3 CallOptions: maxTokens is an optional positive integer budget
BudgetSpecified(opts) == Has(opts, "maxTokens") /\ opts.maxTokens > 0

SchemaSupplied(opts) == Has(opts, "jsonSchema")

(***************************************************************************)
(* C1: with a budget, the argument list carries --max-turns with value "2" *)
(* if a jsonSchema is supplied and "1" if not, exactly once; with no       *)
(* budget (maxTokens absent, or 0, which is no positive budget) it carries *)
(* no --max-turns flag.                                                    *)
(***************************************************************************)
C1_MaxTurns ==
    args # <<>> =>
        /\ BudgetSpecified(options) =>
              /\ Cardinality(FlagPositions(args, "--max-turns")) = 1
              /\ FlagValue(args, "--max-turns") =
                    (IF SchemaSupplied(options) THEN "2" ELSE "1")
        /\ ~BudgetSpecified(options) => ~HasFlag(args, "--max-turns")

C1_Witness ==
    /\ args # <<>>
    /\ BudgetSpecified(options)
    /\ SchemaSupplied(options)
    /\ FlagValue(args, "--max-turns") = "2"

MaxTurnsParsed == 9

\* the number a --max-turns value denotes
TurnsRequested(a) ==
    CHOOSE n \in 0..MaxTurnsParsed : ToString(n) = FlagValue(a, "--max-turns")

(***************************************************************************)
(* C2: every argument list built from CallOptions that carry a jsonSchema  *)
(* carries a --max-turns value of at least 2, whatever the other fields.   *)
(***************************************************************************)
C2_SchemaRequestsTwoTurns ==
    (args # <<>> /\ SchemaSupplied(options)) =>
        /\ HasFlag(args, "--max-turns")
        /\ TurnsRequested(args) >= 2

\* the flags of an argument list, in the order they stand in it
FlagsOf(a) == [i \in 1..((Len(a) - 4) \div 2) |-> a[2 * i + 3]]

\* the place of a flag in the order model, resume, system prompt, schema, turns
FlagRank(flag) ==
    CHOOSE r \in 1..5 :
        <<"--model", "-r", "--system-prompt", "--json-schema", "--max-turns">>[r] = flag

\* a string option that is present and not empty
Specified(opts, field) == Has(opts, field) /\ opts[field] # ""

(***************************************************************************)
(* C22: the argument list starts with "-p", the prompt, "--output-format", *)
(* "json"; after them come flag/value pairs only, in the order --model,    *)
(* -r, --system-prompt, --json-schema (then --max-turns), each at most     *)
(* once; --model, -r and --system-prompt are there exactly when the option *)
(* is a non-empty string and carry it, and --json-schema exactly when a    *)
(* schema object is given, and carries its JSON text.                      *)
(***************************************************************************)
C22_ArgumentList ==
    args # <<>> =>
        /\ Len(args) >= 4
        /\ SubSeq(args, 1, 4) = <<"-p", options.prompt, "--output-format", "json">>
        /\ Len(args) % 2 = 0
        /\ \A i \in 1..Len(FlagsOf(args)) :
              FlagsOf(args)[i] \in
                  {"--model", "-r", "--system-prompt", "--json-schema", "--max-turns"}
        /\ \A i, j \in 1..Len(FlagsOf(args)) :
              i < j => FlagRank(FlagsOf(args)[i]) < FlagRank(FlagsOf(args)[j])
        /\ HasFlag(args, "--model") <=> Specified(options, "model")
        /\ HasFlag(args, "--model") => FlagValue(args, "--model") = options.model
        /\ HasFlag(args, "-r") <=> Specified(options, "sessionId")
        /\ HasFlag(args, "-r") => FlagValue(args, "-r") = options.sessionId
        /\ HasFlag(args, "--system-prompt") <=> Specified(options, "systemPrompt")
        /\ HasFlag(args, "--system-prompt")
              => FlagValue(args, "--system-prompt") = options.systemPrompt
        /\ HasFlag(args, "--json-schema") <=> Has(options, "jsonSchema")
        /\ HasFlag(args, "--json-schema") =>
              FlagValue(args, "--json-schema") =
                  (IF DOMAIN options.jsonSchema = {} THEN "{}"
                   ELSE "{\"type\":\"object\"}")

\* every option given: all five flags, in order
C22_Witness ==
    args = <<"-p", "expand this", "--output-format", "json",
             "--model", "sonnet", "-r", "abc123", "--system-prompt", "Be brief.",
             "--json-schema", "{\"type\":\"object\"}", "--max-turns", "2">>

----------------------------------------------------------------------------
(* The claims about parseResponse, under SpecParse *)

\* the response array of the raw text, once parseResponse has consumed it
Parsed == parsed # ParseIdle /\ JSONparseOk(stdout) /\ JSONparseMessages(stdout) # <<>>

Messages == JSONparseMessages(stdout)

RECURSIVE AssistantBlocks(_)
\* the content blocks of the assistant messages, in array and block order
AssistantBlocks(messages) ==
    IF messages = <<>> THEN <<>>
    ELSE LET m == Head(messages)
         IN  (IF m.type = "assistant" /\ Has(m, "message") /\ Has(m.message, "content")
              THEN m.message.content ELSE <<>>) \o AssistantBlocks(Tail(messages))

\* the StructuredOutput tool_use blocks that carry an input object, in order
StructuredBlocks(messages) ==
    SelectSeq(AssistantBlocks(messages),
              LAMBDA b : b.type = "tool_use" /\ Has(b, "name")
                         /\ b.name = "StructuredOutput" /\ Has(b, "input"))

(***************************************************************************)
(* C3: when some assistant message holds a StructuredOutput tool_use block *)
(* with an input object, parseResponse returns as text the compact JSON of *)
(* the input of the first such block, whatever result messages and text    *)
(* blocks the array also holds; input {"text": "hello"} gives the text     *)
(* {"text":"hello"}.                                                       *)
(***************************************************************************)
C3_StructuredOutputFirst ==
    (Parsed /\ StructuredBlocks(Messages) # <<>>) =>
        /\ parsed.kind = "ok"
        /\ parsed.text = JSONstringify(Head(StructuredBlocks(Messages)).input)
        /\ Head(StructuredBlocks(Messages)).input = [text |-> "hello"]
              => parsed.text = "{\"text\":\"hello\"}"

\* two different StructuredOutput blocks and a result message with a text
C3_Witness ==
    /\ Parsed
    /\ Len(StructuredBlocks(Messages)) >= 2
    /\ StructuredBlocks(Messages)[1].input # StructuredBlocks(Messages)[2].input
    /\ \E i \in 1..Len(Messages) :
          Messages[i].type = "result" /\ TruthyStr(Messages[i], "result")
    /\ parsed.kind = "ok"
    /\ parsed.text = "{\"note\":\"x\"}"

\* the result messages that carry a non-empty result string
UsableResults(messages) ==
    SelectSeq(messages, LAMBDA m : m.type = "result" /\ Has(m, "result") /\ m.result # "")

\* the messages of type result
ResultsOf(messages) == SelectSeq(messages, LAMBDA m : m.type = "result")

Last(seq) == seq[Len(seq)]

\* the non-empty text fields of the text blocks of the assistant messages
NonEmptyTexts(messages) ==
    LET bs == SelectSeq(AssistantBlocks(messages),
                        LAMBDA b : b.type = "text" /\ Has(b, "text") /\ b.text # "")
    IN  [i \in 1..Len(bs) |-> bs[i].text]

\* the text fields of all the text blocks of the assistant messages
AllTexts(messages) ==
    LET bs == SelectSeq(AssistantBlocks(messages),
                        LAMBDA b : b.type = "text" /\ Has(b, "text"))
    IN  [i \in 1..Len(bs) |-> bs[i].text]

AssistantFallback(messages) ==
    IF NonEmptyTexts(messages) = <<>> THEN "(No text in response)"
    ELSE Join(NonEmptyTexts(messages), "\n")

(***************************************************************************)
(* C4 as claimed: with no StructuredOutput block, the text is the result   *)
(* string of the last result message that carries a non-empty result       *)
(* string, and the assistant-text fallback is used only when no result     *)
(* message carries one.                                                    *)
(***************************************************************************)
C4_LastNonEmptyResult ==
    (Parsed /\ StructuredBlocks(Messages) = <<>>) =>
        /\ parsed.kind = "ok"
        /\ UsableResults(Messages) # <<>>
              => parsed.text = Last(UsableResults(Messages)).result
        /\ UsableResults(Messages) = <<>>
              => parsed.text = AssistantFallback(Messages)

(***************************************************************************)
(* C4 amended: with no StructuredOutput block, only the last message of    *)
(* type result is consulted: the text is its result string when that is    *)
(* non-empty, and otherwise (no result message, or the last one has no or  *)
(* an empty result) the assistant-text fallback, even if an earlier result *)
(* message carries a text.                                                 *)
(***************************************************************************)
C4_LastResultMessage ==
    (Parsed /\ StructuredBlocks(Messages) = <<>>) =>
        /\ parsed.kind = "ok"
        /\ IF /\ ResultsOf(Messages) # <<>>
              /\ Has(Last(ResultsOf(Messages)), "result")
              /\ Last(ResultsOf(Messages)).result # ""
           THEN parsed.text = Last(ResultsOf(Messages)).result
           ELSE parsed.text = AssistantFallback(Messages)

\* two result messages with different texts: the later one is returned
C4_Witness ==
    /\ Parsed
    /\ StructuredBlocks(Messages) = <<>>
    /\ Len(UsableResults(Messages)) = 2
    /\ UsableResults(Messages)[1].result = "bye"
    /\ UsableResults(Messages)[2].result = "hi there"
    /\ parsed.kind = "ok"
    /\ parsed.text = "hi there"

\* no StructuredOutput block and no result message with a non-empty result
FallbackCase ==
    Parsed /\ StructuredBlocks(Messages) = <<>> /\ UsableResults(Messages) = <<>>

(***************************************************************************)
(* C5 as claimed: in the fallback case the text is the text fields of all  *)
(* the text blocks of the assistant messages, in order, joined by          *)
(* newlines, and the sentinel when there is no text block.                 *)
(***************************************************************************)
C5_AllTextBlocksJoined ==
    FallbackCase =>
        /\ parsed.kind = "ok"
        /\ parsed.text = (IF AllTexts(Messages) = <<>> THEN "(No text in response)"
                          ELSE Join(AllTexts(Messages), "\n"))

(***************************************************************************)
(* C5 amended: in the fallback case the text is the non-empty text fields  *)
(* of the text blocks of the assistant messages, in order, joined by       *)
(* newlines (blocks "A" and "B" give "A\nB"); text blocks with an empty    *)
(* text and blocks of other types are skipped, and the sentinel is         *)
(* returned when no text block carries a non-empty text.                   *)
(***************************************************************************)
C5_NonEmptyTextBlocksJoined ==
    FallbackCase =>
        /\ parsed.kind = "ok"
        /\ parsed.text = (IF NonEmptyTexts(Messages) = <<>> THEN "(No text in response)"
                          ELSE Join(NonEmptyTexts(Messages), "\n"))
        /\ NonEmptyTexts(Messages) = <<"A", "B">> => parsed.text = "A\nB"

\* text blocks of two assistant messages, a block of another type between them
C5_Witness ==
    /\ FallbackCase
    /\ \E i, j \in 1..Len(Messages) :
          /\ i < j
          /\ Messages[i] = Assistant(<<BlockToolResult, BlockTextA>>)
          /\ Messages[j] = Assistant(<<BlockTextA, BlockTextB>>)
    /\ parsed.text = "A\nA\nB"

\* the system messages that carry a non-empty session_id
SystemsWithId(messages) ==
    SelectSeq(messages,
              LAMBDA m : m.type = "system" /\ Has(m, "session_id") /\ m.session_id # "")

(***************************************************************************)
(* C6: the sessionId parseResponse returns is the session_id of the first  *)
(* system message with a non-empty session_id, and null when there is      *)
(* none; ids on messages of other types or on later system messages never  *)
(* win.                                                                    *)
(***************************************************************************)
C6_FirstSystemSessionId ==
    Parsed =>
        /\ parsed.kind = "ok"
        /\ parsed.sessionId = (IF SystemsWithId(Messages) = <<>> THEN Null
                               ELSE Head(SystemsWithId(Messages)).session_id)

\* an id on a result message first, then two system messages with different ids
C6_Witness ==
    /\ Parsed
    /\ Len(Messages) = 3
    /\ Messages[1] = [type |-> "result", result |-> "bye", session_id |-> "sess-r"]
    /\ Messages[2] = [type |-> "system", session_id |-> "def456"]
    /\ Messages[3] = [type |-> "system", session_id |-> "abc123"]
    /\ parsed.sessionId = "def456"

(***************************************************************************)
(* C26: every response parseResponse returns has a non-empty string as its *)
(* text: the JSON of a StructuredOutput input, or else a non-empty result  *)
(* string, or else the joined non-empty text blocks, or else the sentinel  *)
(* "(No text in response)"; an empty or missing value falls through to the *)
(* next source.                                                            *)
(***************************************************************************)
C26_TextNeverEmpty ==
    (parsed # ParseIdle /\ parsed.kind = "ok") =>
        /\ parsed.text # ""
        /\ parsed.text # "<null>"
        /\ Len(parsed.text) > 0
        /\ \/ /\ StructuredBlocks(Messages) # <<>>
              /\ parsed.text \in {"{}", "{\"text\":\"hello\"}", "{\"note\":\"x\"}"}
           \/ /\ StructuredBlocks(Messages) = <<>>
              /\ \E i \in 1..Len(Messages) :
                    /\ Messages[i].type = "result"
                    /\ Has(Messages[i], "result")
                    /\ parsed.text = Messages[i].result
           \/ /\ StructuredBlocks(Messages) = <<>>
              /\ NonEmptyTexts(Messages) # <<>>
              /\ parsed.text = Join(NonEmptyTexts(Messages), "\n")
           \/ /\ StructuredBlocks(Messages) = <<>>
              /\ NonEmptyTexts(Messages) = <<>>
              /\ parsed.text = "(No text in response)"

\* a StructuredOutput block without input, an empty result, an empty text block
C26_Witness ==
    /\ Parsed
    /\ Messages = <<Assistant(<<BlockSONoInput, BlockToolRead>>),
                    [type |-> "result", result |-> ""],
                    Assistant(<<BlockTextEmpty>>)>>
    /\ parsed.kind = "ok"
    /\ parsed.text = "(No text in response)"

----------------------------------------------------------------------------
(* The claims about callClaude and execute, under Spec *)

\* the child has closed with exit code 0
ClosedZero == proc.state = "closed" /\ Has(proc.exit, "code") /\ proc.exit.code = 0

\* the child has closed with another code, or with none (killed by a signal)
ClosedNonZero == proc.state = "closed" /\ ~(Has(proc.exit, "code") /\ proc.exit.code = 0)

Resolved(calls) == \E i \in 1..Len(calls) : calls[i].call.fn = "resolve"

(***************************************************************************)
(* C7: when the child exits with status 0 and its stdout is not valid JSON *)
(* or decodes to an empty array, the promise of callClaude is rejected     *)
(* with "Failed to parse Claude CLI JSON output", respectively "Empty JSON *)
(* array from Claude CLI output", and resolve is never called.             *)
(***************************************************************************)
C7_MalformedOutputRejected ==
    (ClosedZero /\ (~JSONparseOk(stdout) \/ JSONparseMessages(stdout) = <<>>)) =>
        /\ outcome.state = "rejected"
        /\ outcome.reason = (IF ~JSONparseOk(stdout)
                             THEN "Failed to parse Claude CLI JSON output"
                             ELSE "Empty JSON array from Claude CLI output")
        /\ ~Resolved(settleCalls)

\* exit 0 with [] on stdout, received in two chunks
C7_Witness ==
    /\ ClosedZero
    /\ stdout = <<TokOpen, TokClose>>
    /\ outcome = [state |-> "rejected", reason |-> "Empty JSON array from Claude CLI output"]
    /\ pc = "idle"
    /\ inv.status = "failed"

(***************************************************************************)
(* C8: the promise of callClaude is fulfilled only if the child closed     *)
(* with exit code 0; on any other close the close handler parses nothing,  *)
(* calls reject with "claude CLI exited with code <code>: <stderr          *)
(* trimmed>", and the promise is rejected, with that error unless the      *)
(* error event had rejected it before.                                     *)
(***************************************************************************)
C8_NonZeroExitRejected ==
    /\ outcome.state = "fulfilled" => ClosedZero
    /\ ClosedNonZero =>
          LET expected == "claude CLI exited with code "
                             \o (IF Has(proc.exit, "code") THEN ToString(proc.exit.code)
                                 ELSE "null")
                             \o ": " \o Join(Trim(stderr), "")
          IN  /\ outcome.state = "rejected"
              /\ parsed = ParseIdle
              /\ ~Resolved(settleCalls)
              /\ Last(settleCalls) =
                    [from |-> "close", call |-> [fn |-> "reject", reason |-> expected]]
              /\ Len(settleCalls) = 1 => outcome.reason = expected
              /\ (proc.exit = [code |-> 1]
                    /\ stderr = <<" ", "authentication expired", "\n">>)
                    => outcome.reason =
                          "claude CLI exited with code 1: authentication expired"

\* killed by a signal after writing a whole, valid response array
C8_Witness ==
    /\ ClosedNonZero
    /\ proc.exit = [signal |-> "SIGTERM"]
    /\ stdout = Serialize(<<MsgSystem, MsgExpanded, MsgResult>>)
    /\ stderr = <<" ", "authentication expired", "\n">>
    /\ parsed = ParseIdle
    /\ outcome = [state |-> "rejected",
                  reason |-> "claude CLI exited with code null: authentication expired"]

\* the child of the current call could not be spawned, and its error event has fired
SpawnFailed == proc.state \in {"errored", "closed"} /\ Has(proc, "error")

(***************************************************************************)
(* C9: when the child fails to spawn, the promise of callClaude is         *)
(* rejected with "Failed to spawn claude CLI: <OS error message>", and the *)
(* invocation ends having shown that error in one notice and having        *)
(* spawned once.                                                           *)
(***************************************************************************)
C9_SpawnFailureSurfacedOnce ==
    SpawnFailed =>
        /\ outcome = [state |-> "rejected",
                      reason |-> "Failed to spawn claude CLI: " \o proc.error]
        /\ pc = "idle" =>
              /\ inv.status = "failed"
              /\ inv.spawns = 1
              /\ notices = <<RunningNotice,
                             "Claude Bridge error: Failed to spawn claude CLI: "
                                \o proc.error>>

\* the error event, the notice, and then the close event of the failed spawn
C9_Witness ==
    /\ SpawnFailed
    /\ proc.state = "closed"
    /\ proc.error = "spawn claude ENOENT"
    /\ pc = "idle"
    /\ Len(settleCalls) = 2
    /\ notices = <<"Running: Expand selection with Claude...",
                   "Claude Bridge error: Failed to spawn claude CLI: spawn claude ENOENT">>

(***************************************************************************)
(* C10: an invocation of execute that ends in a failure leaves the         *)
(* document as it was when the invocation began: the editor's text and     *)
(* selection and the frontmatter (the session field) are unchanged, the    *)
(* user not having touched the selection meanwhile.                        *)
(***************************************************************************)
C10_FailureLeavesDocumentUnchanged ==
    (pc = "idle" /\ inv.status = "failed" /\ ~inv.edited) =>
        /\ editor = inv.editor0
        /\ frontmatter = inv.frontmatter0

\* the calls execute has made in the current invocation
Called(step) == \E i \in 1..Len(inv.steps) : inv.steps[i] = step

\* the invocation has ended and the promise of its service call was rejected
ServiceCallFailed == pc = "idle" /\ outcome.state = "rejected"

(***************************************************************************)
(* C11: when the service call of an invocation fails, execute shows one    *)
(* notice that contains the failure message (exit status 1 with stderr     *)
(* "authentication expired" gives "Claude Bridge error: claude CLI exited  *)
(* with code 1: authentication expired"), calls neither setSessionId nor   *)
(* render, and leaves the text, the selection and the frontmatter of the   *)
(* note as they were.                                                      *)
(***************************************************************************)
C11_ServiceFailureReported ==
    ServiceCallFailed =>
        /\ inv.status = "failed"
        /\ notices = <<"Running: Expand selection with Claude...",
                       "Claude Bridge error: " \o outcome.reason>>
        /\ ~Called("setSessionId")
        /\ ~Called("validate")
        /\ ~Called("render")
        /\ editor.doc = inv.editor0.doc
        /\ ~inv.edited => editor = inv.editor0
        /\ frontmatter = inv.frontmatter0
        /\ (proc.state = "closed" /\ proc.exit = [code |-> 1]
              /\ stderr = <<" ", "authentication expired", "\n">>)
              => notices[2] =
                    "Claude Bridge error: claude CLI exited with code 1: authentication expired"

\* exit status 1 with "authentication expired" on stderr, on a note with no session
C11_Witness ==
    /\ ServiceCallFailed
    /\ proc.state = "closed"
    /\ proc.exit = [code |-> 1]
    /\ stderr = <<" ", "authentication expired", "\n">>
    /\ stdout = Serialize(<<MsgSystem, MsgExpanded, MsgResult>>)
    /\ ~Has(frontmatter["note.md"], "claude_session")
    /\ Len(notices) = 2
    /\ getSelection(editor) = "the cat sat"

\* an invocation that got as far as its service call
Invoked == inv.status \in {"running", "ok", "failed"}

\* the place of a call among the calls of the invocation, 0 if it was not made
StepIndex(step) ==
    IF Called(step) THEN CHOOSE i \in 1..Len(inv.steps) : inv.steps[i] = step ELSE 0

(***************************************************************************)
(* C12: within one invocation the calls come in the order service call,    *)
(* schema validation, render, session persistence: setSessionId is called, *)
(* and the frontmatter is written, only after validation has passed and    *)
(* render has been called.                                                 *)
(***************************************************************************)
C12_DocumentedOrder ==
    Invoked =>
        /\ Called("validate") => StepIndex("callClaude") < StepIndex("validate")
        /\ Called("render") => Called("validate") /\ StepIndex("validate") < StepIndex("render")
        /\ Called("setSessionId") =>
              Called("render") /\ StepIndex("render") < StepIndex("setSessionId")
        /\ frontmatter # inv.frontmatter0 => Called("render")

\* the note had no session field when the invocation began
NoPriorSession == getSessionId(inv.frontmatter0, inv.file) = Null

\* the service call returned a session id and the compact JSON of {text: V}
ReturnedText(S, V) ==
    /\ outcome.state = "fulfilled"
    /\ outcome.value.sessionId = S
    /\ outcome.value.text = "{\"text\":\"" \o V \o "\"}"

\* the text of ed with V in place of the selected pieces
Replaced(ed, V) ==
    [i \in 1..(Len(ed.doc) - (ed.to - ed.from)) |->
        IF i < ed.from THEN ed.doc[i]
        ELSE IF i = ed.from THEN V
        ELSE ed.doc[i + (ed.to - ed.from)]]

(***************************************************************************)
(* C13: ExpandCommand on a non-empty selection of a note with no session   *)
(* field: when the service call returns session id S and a text that is    *)
(* the JSON of {text: V}, the invocation ends with the selection replaced  *)
(* by exactly V, the rest of the text as it was, and the note's session    *)
(* field equal to S (the selection not having been moved meanwhile).       *)
(***************************************************************************)
C13_SelectionReplacedSessionStored ==
    \A S \in {"abc123"}, V \in {"hello", "The cat sat quietly on the warm windowsill."} :
        (pc = "idle" /\ Invoked /\ NoPriorSession /\ ReturnedText(S, V) /\ ~inv.edited) =>
            /\ inv.status = "ok"
            /\ getSelection(inv.editor0) # ""
            /\ editor.doc = Replaced(inv.editor0, V)
            /\ frontmatter[inv.file].claude_session = [str |-> S]
            /\ notices = <<"Running: Expand selection with Claude...",
                           "Expand selection with Claude complete">>

\* "the cat sat" expanded on a note without a session
C13_Witness ==
    /\ pc = "idle"
    /\ inv.status = "ok"
    /\ NoPriorSession
    /\ ~inv.edited
    /\ inv.editor0 = [doc |-> <<"the cat sat", " on the mat">>, from |-> 1, to |-> 1]
    /\ ReturnedText("abc123", "The cat sat quietly on the warm windowsill.")
    /\ editor.doc = <<"The cat sat quietly on the warm windowsill.", " on the mat">>
    /\ getSessionId(frontmatter, "note.md") = "abc123"

----------------------------------------------------------------------------
(* More claims about execute, under Spec *)

\* execute returned at one of its two precondition checks
PreconditionFailed == inv.status = "precondition"

(***************************************************************************)
(* C17: execute on a view with no file, or with an empty selection, shows  *)
(* one notice ("No active file", "Select some text first") and returns: no *)
(* session lookup, no argument list, no child process, no notice of a run, *)
(* and the text, the selection and the frontmatter as they were; and every *)
(* invocation that goes further has a file and a non-empty selection.      *)
(***************************************************************************)
C17_PreconditionsFailFast ==
    /\ PreconditionFailed =>
          /\ inv.file = "<null>" \/ getSelection(inv.editor0) = ""
          /\ notices = <<IF inv.file = "<null>" THEN "No active file"
                         ELSE "Select some text first">>
          /\ pc = "idle"
          /\ inv.spawns = 0
          /\ inv.steps = <<>>
          /\ args = <<>>
          /\ proc.state = "none"
          /\ settleCalls = <<>>
          /\ frontmatter = inv.frontmatter0
          /\ editor.doc = inv.editor0.doc
          /\ ~inv.edited => editor = inv.editor0
    /\ Invoked => inv.file \in Files /\ getSelection(inv.editor0) # ""

\* the second invocation, on the empty selection the first one's render left behind
C17_Witness ==
    /\ PreconditionFailed
    /\ runs = 2
    /\ inv.file = "note.md"
    /\ inv.editor0.doc = <<"The cat sat quietly on the warm windowsill.", " on the mat">>
    /\ inv.editor0.to < inv.editor0.from
    /\ notices = <<"Select some text first">>
    /\ inv.frontmatter0["note.md"] =
          [title |-> [str |-> "Note"], claude_session |-> [str |-> "abc123"]]

\* the session field the note of the invocation held when the invocation began
HeldSession == Has(inv.frontmatter0[inv.file], "claude_session")

(***************************************************************************)
(* C18: an invocation on a note whose session field holds the id S passes  *)
(* -r S to the CLI, once, and an invocation on a note with no session      *)
(* field passes no -r; so the invocation that follows one that persisted S *)
(* on the same note resumes S.                                             *)
(***************************************************************************)
C18_SessionContinuity ==
    Invoked =>
        IF HeldSession
        THEN /\ Cardinality(FlagPositions(args, "-r")) = 1
             /\ [str |-> FlagValue(args, "-r")] = inv.frontmatter0[inv.file].claude_session
        ELSE ~HasFlag(args, "-r")

\* the second invocation resumes the session the first one persisted
C18_Witness ==
    /\ Invoked
    /\ runs = 2
    /\ inv.frontmatter0["note.md"] =
          [title |-> [str |-> "Note"], claude_session |-> [str |-> "abc123"]]
    /\ HasFlag(args, "-r")
    /\ FlagValue(args, "-r") = "abc123"
    /\ pc = "awaitCall"

\* the text is the JSON of an object with a string text
DecodesToText(text) ==
    \E V \in {"hello", "The cat sat quietly on the warm windowsill."} :
        text = "{\"text\":\"" \o V \o "\"}"

(***************************************************************************)
(* C19: with the schema of ExpandCommand, render is called only after the  *)
(* text of the response has been decoded as JSON and has passed the        *)
(* schema; when the text is no JSON or fails the schema the invocation     *)
(* ends with an error notice, render not called and the text of the note   *)
(* as it was.                                                              *)
(***************************************************************************)
C19_ValidationGatesRender ==
    /\ Called("render") =>
          /\ StepIndex("validate") > 0
          /\ StepIndex("validate") < StepIndex("render")
          /\ outcome.state = "fulfilled"
          /\ DecodesToText(outcome.value.text)
    /\ (pc = "idle" /\ Invoked /\ outcome.state = "fulfilled"
          /\ ~DecodesToText(outcome.value.text)) =>
          /\ inv.status = "failed"
          /\ Called("validate")
          /\ ~Called("render")
          /\ Len(notices) = 2
          /\ notices[2] \in {"Claude Bridge error: SyntaxError: Unexpected token in JSON",
                             "Claude Bridge error: ZodError: text: Required"}
          /\ editor.doc = inv.editor0.doc

\* a StructuredOutput input without the text key: JSON, but not of the schema
C19_Witness ==
    /\ pc = "idle"
    /\ inv.status = "failed"
    /\ outcome.state = "fulfilled"
    /\ outcome.value.text = "{\"note\":\"x\"}"
    /\ Called("validate")
    /\ notices[2] = "Claude Bridge error: ZodError: text: Required"

\* how many times the invocation called callClaude
ServiceCalls == Cardinality({i \in 1..Len(inv.steps) : inv.steps[i] = "callClaude"})

(***************************************************************************)
(* C20: an invocation spawns the CLI at most once: once if it passes the   *)
(* precondition checks, never otherwise, and no child process is started   *)
(* after a spawn failure, an abnormal exit, malformed output, a validation *)
(* failure or a success.                                                   *)
(***************************************************************************)
C20_NoRetry ==
    /\ inv.spawns <= 1
    /\ ServiceCalls = inv.spawns
    /\ Invoked => inv.spawns = 1
    /\ (pc = "idle" /\ Invoked) => proc.state \in {"errored", "closed"}

\* a validation failure on a text that is no JSON, the child long closed
C20_Witness ==
    /\ pc = "idle"
    /\ inv.status = "failed"
    /\ inv.spawns = 1
    /\ proc.state = "closed"
    /\ outcome.state = "fulfilled"
    /\ outcome.value.text = "hi there"
    /\ notices[2] = "Claude Bridge error: SyntaxError: Unexpected token in JSON"

\* the child of the current call ran, and has closed
Closed == proc.state = "closed" /\ proc.plan.ok

\* how many times the close handler has run in the current call
CloseEvents == Cardinality({i \in 1..Len(settleCalls) : settleCalls[i].from = "close"})

\* text received so far followed by text still to come is the text the child writes
InArrivalOrder ==
    (proc.state \in {"running", "closed"} /\ proc.plan.ok) =>
        /\ stdout \o proc.out = proc.plan.out
        /\ stderr \o proc.err = proc.plan.err

\* nothing is parsed while data events arrive
NoParseBeforeClose == proc.state \in {"running", "spawnFailed", "errored"} => parsed = ParseIdle

(***************************************************************************)
(* C23 as claimed: no parse on a data event, chunks concatenated in        *)
(* arrival order, and for every call whose child has closed parseResponse  *)
(* has run exactly once, in the close handler, on all the text received.   *)
(***************************************************************************)
C23_ParsedExactlyOnce ==
    /\ NoParseBeforeClose
    /\ InArrivalOrder
    /\ CloseEvents <= 1
    /\ Closed =>
          /\ stdout = proc.plan.out
          /\ parsed # ParseIdle
          /\ parsed = parseResponse(proc.plan.out)

(***************************************************************************)
(* C23 amended: no parse on a data event, chunks concatenated in arrival   *)
(* order, and parseResponse runs at most once, in the close handler: once  *)
(* on all the text received when the child closed with exit code 0, and    *)
(* not at all when it closed with another code or was killed by a signal.  *)
(***************************************************************************)
C23_ParsedOnceOnCleanExit ==
    /\ NoParseBeforeClose
    /\ InArrivalOrder
    /\ CloseEvents <= 1
    /\ Closed =>
          /\ stdout = proc.plan.out
          /\ stderr = proc.plan.err
          /\ IF proc.exit = [code |-> 0]
             THEN parsed # ParseIdle /\ parsed = parseResponse(proc.plan.out)
             ELSE parsed = ParseIdle

\* a response array of five tokens received in three chunks, then exit 0
C23_Witness ==
    /\ Closed
    /\ proc.exit = [code |-> 0]
    /\ Len(stdout) = 5
    /\ stdout = Serialize(<<MsgSystem, MsgExpanded, MsgResult>>)
    /\ parsed.kind = "ok"
    /\ parsed.sessionId = "abc123"
    /\ parsed.text = "{\"text\":\"The cat sat quietly on the warm windowsill.\"}"

\* the service call of the invocation returned a response without a session id
ReturnedNoSession ==
    pc = "idle" /\ Invoked /\ outcome.state = "fulfilled" /\ outcome.value.sessionId = "<null>"

(***************************************************************************)
(* C27: when the service call returns a response with a null session id,   *)
(* execute calls neither setSessionId nor clearSession: the frontmatter of *)
(* every note, the session field of the invocation's note included, is as  *)
(* it was at the start, and the output is validated and rendered all the   *)
(* same.                                                                   *)
(***************************************************************************)
C27_NullSessionLeavesFieldAlone ==
    ReturnedNoSession =>
        /\ ~Called("setSessionId")
        /\ ~Called("clearSession")
        /\ frontmatter = inv.frontmatter0
        /\ Called("validate")
        /\ DecodesToText(outcome.value.text) =>
              /\ inv.status = "ok"
              /\ Called("render")
              /\ notices = <<"Running: Expand selection with Claude...",
                             "Expand selection with Claude complete">>
              /\ ~inv.edited =>
                    \E V \in {"hello", "The cat sat quietly on the warm windowsill."} :
                        /\ outcome.value.text = "{\"text\":\"" \o V \o "\"}"
                        /\ editor.doc = Replaced(inv.editor0, V)

\* the session old111 kept, the selection expanded
C27_Witness ==
    /\ ReturnedNoSession
    /\ inv.status = "ok"
    /\ inv.frontmatter0["note.md"] =
          [title |-> [str |-> "Note"], claude_session |-> [str |-> "old111"]]
    /\ frontmatter["note.md"] =
          [title |-> [str |-> "Note"], claude_session |-> [str |-> "old111"]]
    /\ editor.doc = <<"The cat sat quietly on the warm windowsill.", " on the mat">>

\* ExpandCommand's prompt for a selection
PromptFor(selection) ==
    "Expand and improve the following text.\nKeep the same tone and style.\n"
        \o "Return only the improved text, no preamble.\n\n---\n"
        \o selection \o "\n---"

\* the step in which execute renders and ends
Rendering == pc # "idle" /\ pc' = "idle" /\ inv'.status = "ok"

(***************************************************************************)
(* C28: the prompt is built from the selection at the start of the         *)
(* invocation, and the output replaces whatever is selected in the editor  *)
(* at the moment execute renders: if the selection was moved while the     *)
(* call was in flight, the replacement goes to the new selection.          *)
(***************************************************************************)
C28_RenderedIntoCurrentSelection ==
    [][Rendering =>
          /\ options.prompt = PromptFor(getSelection(inv.editor0))
          /\ \E V \in {"hello", "The cat sat quietly on the warm windowsill."} :
                /\ outcome.value.text = "{\"text\":\"" \o V \o "\"}"
                /\ editor'.doc = Replaced(editor, V)
                /\ editor'.from = editor.from + 1
                /\ editor'.to = editor.from]_vars

\* prompted with "the cat sat", rendered over " on the mat", selected meanwhile
C28_Witness ==
    /\ pc = "idle"
    /\ inv.status = "ok"
    /\ inv.editor0 = [doc |-> <<"the cat sat", " on the mat">>, from |-> 1, to |-> 1]
    /\ options.prompt = PromptFor("the cat sat")
    /\ editor.doc = <<"the cat sat", "The cat sat quietly on the warm windowsill.">>

----------------------------------------------------------------------------
(* The claims about the SessionManager, under SpecStore *)

\* getSessionId(file) has just returned, the operation before it being on the same file
ReadBackAfter(op) == sm.op = "get" /\ sm.after.op = op /\ sm.after.file = sm.file

(***************************************************************************)
(* C15: setSessionId(file, id) followed by getSessionId(file) returns id,  *)
(* and clearSession(file) followed by getSessionId(file) returns null,     *)
(* for every file, every id and whatever the frontmatter held before.      *)
(***************************************************************************)
C15_SessionRoundTrip ==
    /\ ReadBackAfter("set") => sm.result = sm.after.id
    /\ ReadBackAfter("clear") => sm.result = "<null>"

\* def456 read back from a note whose session field held a number
C15_Witness ==
    /\ ReadBackAfter("set")
    /\ sm.file = "other.md"
    /\ sm.base["other.md"] = [claude_session |-> [num |-> 12345], tags |-> [str |-> "draft"]]
    /\ sm.after.id = "def456"
    /\ sm.result = "def456"

\* the fields of a frontmatter other than the session field
OtherFields(block) == [k \in DOMAIN block \ {"claude_session"} |-> block[k]]

(***************************************************************************)
(* C16: after any sequence of setSessionId and clearSession calls, a file  *)
(* none of them was applied to has the frontmatter it had before them,     *)
(* session field included, and a file they were applied to has every       *)
(* field other than the session field as it was.                           *)
(***************************************************************************)
C16_OnlyTheSessionFieldOfTheFile ==
    sm.op # "none" =>
        \A f \in Files :
            /\ f \notin sm.touched => frontmatter[f] = sm.base[f]
            /\ OtherFields(frontmatter[f]) = OtherFields(sm.base[f])

\* note.md set and cleared, other.md with its session untouched
C16_Witness ==
    /\ sm.op = "clear"
    /\ sm.touched = {"note.md"}
    /\ sm.base["note.md"] = [title |-> [str |-> "Note"], claude_session |-> [str |-> "old111"]]
    /\ frontmatter["note.md"] = [title |-> [str |-> "Note"]]
    /\ frontmatter["other.md"] = [claude_session |-> [num |-> 12345], tags |-> [str |-> "draft"]]

----------------------------------------------------------------------------
(* The claim about the promise of callClaude, under SpecEvents *)

\* what a call of resolve or reject makes of a pending promise
SettledBy(call) ==
    IF call.fn = "resolve" THEN [state |-> "fulfilled", value |-> call.value]
    ELSE [state |-> "rejected", reason |-> call.reason]

(***************************************************************************)
(* C25: a callClaude promise has at most one outcome: it is pending until  *)
(* the first of the error and close handlers runs, takes the result or the *)
(* error of that handler, and keeps it when the other handler runs later,  *)
(* in whichever order the two events fire.                                 *)
(***************************************************************************)
C25_FirstSettlementStands ==
    /\ settleCalls = <<>> => outcome = [state |-> "pending"]
    /\ settleCalls # <<>> => outcome = SettledBy(settleCalls[1].call)
    /\ Len(settleCalls) <= 2

\* close with a response first, the error event after it: the response stands
C25_Witness ==
    /\ Len(settleCalls) = 2
    /\ settleCalls[1].from = "close"
    /\ settleCalls[1].call.fn = "resolve"
    /\ settleCalls[2] =
          [from |-> "error",
           call |-> [fn |-> "reject",
                     reason |-> "Failed to spawn claude CLI: spawn claude ENOENT"]]
    /\ outcome.state = "fulfilled"
    /\ outcome.value.sessionId = "abc123"

----------------------------------------------------------------------------
(* The claim about the settings tab, under SpecSettings *)

\* the budget a text typed into the field stands for, 0 if it is refused
BudgetTyped(input) ==
    CASE input = <<"1", "2">> -> 12
      [] input = <<"1", "2", "a">> -> 12
      [] input = <<"1", ".", "5">> -> 1
      [] input = <<" ", "+", "7">> -> 7
      [] input = <<"0", "0", "3", "0">> -> 30
      [] OTHER -> 0

(***************************************************************************)
(* C24: starting from the default settings, after any edits of the max     *)
(* budget field plugin.settings.maxBudgetTokens is a positive integer: a   *)
(* text that parseInt reads as an integer above 0 sets it and is saved, any *)
(* other text ("", "ab", "0", "-5") changes nothing and saves nothing; so  *)
(* every invocation passes a positive maxTokens and its argument list      *)
(* carries --max-turns.                                                    *)
(***************************************************************************)
C24_BudgetStaysPositive ==
    /\ settings.maxBudgetTokens \in Nat
    /\ settings.maxBudgetTokens > 0
    /\ settings.maxBudgetTokens # Infinity
    /\ data.edits > 0 =>
          IF BudgetTyped(data.input) > 0
          THEN /\ settings = [data.before.settings EXCEPT
                                  !.maxBudgetTokens = BudgetTyped(data.input)]
               /\ data.saves = data.before.saves + 1
               /\ data.saved = settings
          ELSE /\ settings = data.before.settings
               /\ data.saves = data.before.saves
    /\ data.saves = 0 => settings.maxBudgetTokens = 50000 /\ ~Has(data, "saved")
    /\ Invoked =>
          /\ Has(options, "maxTokens")
          /\ options.maxTokens > 0
          /\ Cardinality(FlagPositions(args, "--max-turns")) = 1
          /\ FlagValue(args, "--max-turns") = "2"

----------------------------------------------------------------------------
(* The claim about concurrent invocations, under SpecConcurrent *)

\* invocation i has ended and its service call returned a session id
EndedWithSession(i) ==
    /\ conc.calls[i].pc = "done"
    /\ conc.calls[i].status \in {"ok", "failed"}
    /\ conc.calls[i].outcome.state = "fulfilled"
    /\ conc.calls[i].outcome.value.sessionId # "<null>"

\* both invocations were in flight together: each started before the other ended
Overlapped == Len(conc.order) = 2

(***************************************************************************)
(* C21: when two invocations on the same note are in flight together and   *)
(* both service calls return a session id, both setSessionId writes take   *)
(* place (no lock, no version check), each with the id of its own call,    *)
(* and when both have ended the session field of the note is the id        *)
(* written last, whichever invocation started first.                       *)
(***************************************************************************)
C21_LastWriteWins ==
    (Overlapped /\ \A i \in {1, 2} : EndedWithSession(i)) =>
        /\ Len(conc.writes) = 2
        /\ {conc.writes[1].by, conc.writes[2].by} = {1, 2}
        /\ \A k \in 1..2 :
              conc.writes[k].id = conc.calls[conc.writes[k].by].outcome.value.sessionId
        /\ frontmatter["note.md"].claude_session = [str |-> conc.writes[2].id]
        /\ frontmatter["other.md"] = [claude_session |-> [str |-> "zzz999"]]

\* invocation 1 started first and wrote last: its id abc123 stands, over def456
C21_Witness ==
    /\ conc.order = <<1, 2>>
    /\ \A i \in {1, 2} : EndedWithSession(i)
    /\ conc.writes = <<[by |-> 2, id |-> "def456"], [by |-> 1, id |-> "abc123"]>>
    /\ frontmatter["note.md"] =
          [title |-> [str |-> "Note"], claude_session |-> [str |-> "abc123"]]

====
